---- MODULE Spec2Model ----
(***************************************************************************)
(* A model of PoE2ChatNotifier.py: the log tailer (monitor_file), the      *)
(* per-line worker tasks (process_line), the classifier (parse_message),   *)
(* the unread-whisper counter and the bounded message history that the     *)
(* Qt main thread fills from the queued log_line / system_line signals.    *)
(*                                                                         *)
(* Text is a sequence of one-character strings, indexed from 0 in the      *)
(* Python-style helpers (Find, Slice) exactly as the source indexes it.    *)
(***************************************************************************)
EXTENDS Integers, Sequences, FiniteSets, TLC

---------------------------------------------------------------------------
(* Python string primitives used by the source                             *)

\* Python's None, kept apart from every text (also from the empty text)
None == <<"<None>">>

\* the characters str.strip() removes that can occur in the modelled log
Whitespace == {" ", "\n", "\t", "\r"}

\* least and greatest element of a non-empty set of integers (the set is named once, so
\* that it is computed once)
SetMin(S) == CHOOSE m \in UNION {{x \in T : \A y \in T : x <= y} : T \in {S}} : TRUE

SetMax(S) == CHOOSE m \in UNION {{x \in T : \A y \in T : x >= y} : T \in {S}} : TRUE

\* s.startswith(p)
StartsWith(s, p) == Len(s) >= Len(p) /\ SubSeq(s, 1, Len(p)) = p

\* s.find(sub, start): 0-based index of the first occurrence at or after start, else -1
Find(s, sub, start) ==
    LET hits == {i \in start..(Len(s) - Len(sub)) : SubSeq(s, i + 1, i + Len(sub)) = sub}
    IN  IF hits = {} THEN -1 ELSE SetMin(hits)

\* s.rfind(sub): 0-based index of the last occurrence, else -1
RFind(s, sub) ==
    LET hits == {i \in 0..(Len(s) - Len(sub)) : SubSeq(s, i + 1, i + Len(sub)) = sub}
    IN  IF hits = {} THEN -1 ELSE SetMax(hits)

\* a slice bound as Python normalises it: negative counts from the end, then clamped
SliceIndex(s, i) ==
    LET j == IF i < 0 THEN i + Len(s) ELSE i
    IN  IF j < 0 THEN 0 ELSE IF j > Len(s) THEN Len(s) ELSE j

\* s[a:b]
Slice(s, a, b) == SubSeq(s, SliceIndex(s, a) + 1, SliceIndex(s, b))

\* s[a:]
SliceFrom(s, a) == SubSeq(s, SliceIndex(s, a) + 1, Len(s))

\* s.lstrip(chars): drop every leading character that belongs to chars
LStripChars(s, chars) ==
    LET keep == {i \in 1..Len(s) : s[i] \notin chars}
    IN  IF keep = {} THEN <<>> ELSE SubSeq(s, SetMin(keep), Len(s))

\* s.strip(): drop leading and trailing whitespace
Strip(s) ==
    LET keep == {i \in 1..Len(s) : s[i] \notin Whitespace}
    IN  IF keep = {} THEN <<>> ELSE SubSeq(s, SetMin(keep), SetMax(keep))

\* the set of characters of a text (the argument of lstrip)
Chars(s) == {s[i] : i \in 1..Len(s)}

\* bool(x) of a text or None
Truthy(x) == x # None /\ x # <<>>

---------------------------------------------------------------------------
(* Line parsing: extract_timestamp, extract_message, parse_message         *)

\* the time taken from the start of the line: its first token, cut to 5 characters
extract_timestamp_first(line) ==
    Slice(Slice(line, 0, Find(line, <<" ">>, 0)), 0, 5)

\* extract_timestamp(line)
extract_timestamp(line) ==
    LET time_start == Find(line, <<" ">>, 0) + 1
        time_end   == Find(line, <<" ">>, time_start)
    IN  Slice(Slice(line, time_start, time_end), 0, 5)

\* extract_message(line)
extract_message(line) ==
    LET message_start == RFind(line, <<"]", " ">>) + 2
    IN  Strip(SliceFrom(line, message_start))

MarkFrom == <<"@", "F", "r", "o", "m", " ">>

MarkTo == <<"@", "T", "o", " ">>

MarkSystem == <<"S", "y", "s", "t", "e", "m", ":">>

\* the if/elif chain of parse_message: channel and category from the start of the message
channel_of(message) ==
    IF StartsWith(message, <<"#", "#">>) THEN [channel |-> <<"#">>, category |-> "Global"]
    ELSE IF StartsWith(message, <<"$", "$">>) THEN [channel |-> <<"$">>, category |-> "Trade"]
    ELSE IF StartsWith(message, <<"#">>) THEN [channel |-> <<"#">>, category |-> "Global"]
    ELSE IF StartsWith(message, <<"$">>) THEN [channel |-> <<"$">>, category |-> "Trade"]
    ELSE IF StartsWith(message, <<"&">>) THEN [channel |-> <<"&">>, category |-> "Guild"]
    ELSE IF StartsWith(message, <<"%">>) THEN [channel |-> <<"%">>, category |-> "Party"]
    ELSE IF StartsWith(message, MarkFrom) THEN [channel |-> MarkFrom, category |-> "Whisper"]
    ELSE IF StartsWith(message, MarkTo) THEN [channel |-> MarkTo, category |-> "Whisper"]
    ELSE IF StartsWith(message, MarkSystem)
         THEN [channel |-> <<"S", "y", "s", "t", "e", "m">>, category |-> "System"]
    ELSE [channel |-> <<>>, category |-> "Local"]

\* the speaker of a whisper taken as that of the other categories is: by lstrip
username_of_lstrip(username_part, channel, category) ==
    IF category = "System" THEN None
    ELSE Strip(LStripChars(username_part, Chars(channel)))

\* the username of parse_message, from the part before the first ':'
username_of(username_part, channel, category) ==
    IF category = "System" THEN None
    ELSE IF category = "Whisper" THEN Strip(SliceFrom(username_part, Len(channel)))
    ELSE Strip(LStripChars(username_part, Chars(channel)))

\* the None that parse_message returns, a record like its other results
NoneParsed == [category |-> "<None>"]

\* a parser without the test for ':' : a message without one is a Local message without
\* a speaker
parse_message_lenient(message) ==
    LET found         == Find(message, <<":">>, 0)
        colon         == IF found = -1 THEN 0 ELSE found
        username_part == Strip(Slice(message, 0, colon))
        content       == SliceFrom(message, IF found = -1 THEN 0 ELSE colon + 1)
        cc            == channel_of(message)
    IN  [channel  |-> cc.channel,
         username |-> username_of(username_part, cc.channel, cc.category),
         content  |-> Strip(content),
         category |-> cc.category]

\* parse_message(message): None, or the tuple (channel, username, content, category)
parse_message(message) ==
    IF Find(message, <<":">>, 0) = -1 THEN NoneParsed
    ELSE LET colon         == Find(message, <<":">>, 0)
             username_part == Strip(Slice(message, 0, colon))
             content       == SliceFrom(message, colon + 1)
             cc            == channel_of(message)
         IN  [channel  |-> cc.channel,
              username |-> username_of(username_part, cc.channel, cc.category),
              content  |-> Strip(content),
              category |-> cc.category]

---------------------------------------------------------------------------
(* Bounds of the model and the sample inputs                               *)

\* write operations of the game during a run (a whole line, or a piece of one)
MaxWrites == 2

\* largest history capacity a configuration of the model yields
MaxCap == 2

\* characters of a line that the writer may hold back when it writes the line in two pieces
TailLen == 1

\* whispers in a burst of the game (the burst is the initial state of SpecBurst)
BurstLen == 3

\* max_workers of the ThreadPoolExecutor
MaxWorkers == 4

\* the constant added to message_limits["Global"] for the deque's maxlen
ExtraLimit == 100

\* "<prefix> <HH:MM:SS> [..] " : what precedes the message body in a Client.txt line
LinePrefix == <<"d", " ", "0", "0", ":", "0", "1", ":", "0", "2", " ", "[", "c", "]", " ">>

NameA == <<"A">>

\* message bodies the writer chooses from
SampleBodies ==
    { MarkFrom \o <<"A", ":", " ", "h", "i">>,      \* incoming whisper from A
      MarkTo \o <<"A", ":", " ", "o", "k">>,        \* outgoing whisper to A
      <<"#", "A", ":", " ", "g", "g">> }            \* global chat by A

SampleLines == {LinePrefix \o b : b \in SampleBodies}

\* the log as it is when the application starts: one complete earlier line
OldContent == LinePrefix \o MarkFrom \o <<"B", ":", " ", "o", "l", "d", "\n">>

\* a configuration as config.json holds it (the keys the modelled code reads)
Config(enable, ignored, limit) ==
    [enable_whisper_notifications |-> enable, ignored_users |-> ignored, global_limit |-> limit]

\* the sample configurations: notifications on or off, nobody or A ignored; the Global
\* limit gives capacity MaxCap with the shorter ignore list and capacity 1 with the longer
Configs ==
    {Config(e, ig, (IF ig = {} THEN MaxCap ELSE 1) - ExtraLimit) :
        e \in BOOLEAN, ig \in {{}, {NameA}}}

---------------------------------------------------------------------------
(* State                                                                   *)

VARIABLES
    file,        \* content of Client.txt, written by the game
    pending,     \* rest of the line the game has written only in part
    written,     \* write operations of the game so far during the run
    tpc,         \* monitor_file: "none", "open", "check", "read", "done"
    pos,         \* monitor_file: read offset of the open file object
    openLen,     \* size of the file when monitor_file opened it (-1 before)
    tasks,       \* everything submitted to the executor after monitor_file, in order
    bus,         \* queued signal emissions not yet delivered to the main thread
    messages,    \* self.messages
    maxlen,      \* maxlen of self.messages
    unread,      \* self.unread_whispers
    config,      \* self.config
    win,         \* the window: "normal" or "minimized" (what isMinimized() reports)
    stop_flag,   \* self.stop_flag
    shutdown,    \* the executor was shut down
    attention    \* QApplication.alert was called and the window not activated since

vars == <<file, pending, written, tpc, pos, openLen, tasks, bus, messages, maxlen,
          unread, config, win, stop_flag, shutdown, attention>>

fileVars == <<file, pending, written>>

uiVars == <<messages, maxlen, config, win, stop_flag, shutdown>>

---------------------------------------------------------------------------
(* Signals and the history                                                 *)

\* the tuple on_system_line stores for a notice
SystemEntry(msg) ==
    [content |-> <<msg>>, timestamp |-> None, channel |-> None, username |-> None,
     category |-> "System", src |-> 0]

\* the tuple on_log_line stores; src is the index in tasks of the line it came from
LogEntry(content, timestamp, channel, username, category, src) ==
    [content |-> content, timestamp |-> timestamp, channel |-> channel,
     username |-> username, category |-> category, src |-> src]

\* a deque that was given no maxlen: append never evicts
DequeAppendUnbounded(d, e, n) == Append(d, e)

\* a deque that makes room at the wrong end: the newest stored entry is evicted
DequeAppendEvictNewest(d, e, n) ==
    IF n = 0 THEN <<>>
    ELSE IF Len(d) >= n THEN Append(SubSeq(d, 1, n - 1), e)
    ELSE Append(d, e)

\* deque.append with maxlen n
DequeAppend(d, e, n) ==
    IF n = 0 THEN <<>>
    ELSE IF Len(d) >= n THEN Append(SubSeq(d, Len(d) - n + 2, Len(d)), e)
    ELSE Append(d, e)

\* deque(maxlen = message_limits.get("Global", 100) + 100)
InitMaxlen(cfg) == cfg.global_limit + ExtraLimit

\* a handler that swallows the error: nothing is emitted
EmitSystemDropped(q, msg) == q

\* a handler that reports the same error twice
EmitSystemTwice(q, msg) ==
    q \o << [sig |-> "system_line", entry |-> SystemEntry(msg)],
            [sig |-> "system_line", entry |-> SystemEntry(msg)] >>

\* signals.system_line.emit(msg, color) from a worker thread: queued to the main thread
EmitSystem(q, msg) == Append(q, [sig |-> "system_line", entry |-> SystemEntry(msg)])

\* signals.log_line.emit(...) from a worker thread: queued to the main thread
EmitLog(q, entry) == Append(q, [sig |-> "log_line", entry |-> entry])

---------------------------------------------------------------------------
(* Initial state: POEChatParserApp.__init__                                *)

\* A task of the pool.  pc: "queued" (submitted), then for process_line "store" (it has
\* read the counter and not yet written it back), "emit" (it is about to emit log_line),
\* and at its end "dropped" (returned without an event), "failed" (its exception handler
\* ran) or "emitted"; for play_notify "playing", then "finished".
\* tmp is the counter value read by "+= 1"; off and end delimit the piece of the file that
\* readline returned for the task (characters off+1..end).  parsed is the local variable
\* of process_line: what it computes from its line before it looks at any shared state;
\* the value depends on the line alone and is kept with the task from its submission.

\* message = self.extract_message(line); parsed = self.parse_message(message)
Parsed(line) == parse_message(extract_message(line))

\* a process_line task as submitted by monitor_file
LineTask(line, off, end) ==
    [kind |-> "line", line |-> line, off |-> off, end |-> end, pc |-> "queued", tmp |-> 0,
     parsed |-> Parsed(line)]

\* a play_notify task as submitted by process_line
SoundTask ==
    [kind |-> "sound", line |-> <<>>, off |-> 0, end |-> 0, pc |-> "queued", tmp |-> 0,
     parsed |-> NoneParsed]

NotFoundMsg == "Path of Exile log file not found."

\* __init__: the log path is either a file (monitor_file is submitted) or not (a notice is
\* emitted from the main thread, hence delivered at once)
Init ==
    /\ file = OldContent
    /\ pending = <<>>
    /\ written = 0
    /\ pos = 0
    /\ openLen = -1
    /\ tasks = <<>>
    /\ bus = <<>>
    /\ config \in Configs
    /\ maxlen = InitMaxlen(config)
    /\ unread = 0
    /\ win = "normal"
    /\ stop_flag = FALSE
    /\ shutdown = FALSE
    /\ attention = FALSE
    /\ \/ tpc = "open" /\ messages = <<>>
       \/ tpc = "none" /\ messages = DequeAppend(<<>>, SystemEntry(NotFoundMsg), maxlen)

---------------------------------------------------------------------------
(* The game writing Client.txt                                             *)

\* the game appends a whole line, or all of it but its last TailLen characters
WriterAppend ==
    /\ pending = <<>>
    /\ written < MaxWrites
    /\ \E l \in SampleLines :
          \/ file' = file \o l \o <<"\n">> /\ pending' = <<>>
          \/ /\ TailLen < Len(l)
             /\ written + 1 < MaxWrites
             /\ file' = file \o SubSeq(l, 1, Len(l) - TailLen)
             /\ pending' = SubSeq(l, Len(l) - TailLen + 1, Len(l)) \o <<"\n">>
    /\ written' = written + 1
    /\ UNCHANGED <<tpc, pos, openLen, tasks, bus, unread, attention>>
    /\ UNCHANGED uiVars

\* the game appends the rest of the line it had begun
WriterFinish ==
    /\ pending # <<>>
    /\ file' = file \o pending
    /\ pending' = <<>>
    /\ written' = written + 1
    /\ UNCHANGED <<tpc, pos, openLen, tasks, bus, unread, attention>>
    /\ UNCHANGED uiVars

---------------------------------------------------------------------------
(* monitor_file                                                            *)

TailerAlive == tpc \in {"open", "check", "read"}

\* file.readline() at offset p: up to and including the next newline, else up to the end
ReadLine(f, p) ==
    LET nl == Find(f, <<"\n">>, p)
    IN  IF nl = -1 THEN SliceFrom(f, p) ELSE Slice(f, p, nl + 1)

TailerErrorMsg == "Error: "

\* the seek left out: the file object stays at offset 0
SeekEndMissing(f) == 0

\* file.seek(0, os.SEEK_END): the offset it leaves the file object at
SeekEnd(f) == Len(f)

\* open(file_path) and file.seek(0, os.SEEK_END); a failing open is caught and reported
TailerOpen ==
    /\ tpc = "open"
    /\ \/ /\ pos' = SeekEnd(file)
          /\ openLen' = Len(file)
          /\ tpc' = "check"
          /\ bus' = bus
       \/ /\ tpc' = "done"
          /\ bus' = EmitSystem(bus, TailerErrorMsg)
          /\ UNCHANGED <<pos, openLen>>
    /\ UNCHANGED <<tasks, unread, attention>>
    /\ UNCHANGED fileVars
    /\ UNCHANGED uiVars

\* a loop that never looks at the flag
loop_condition_forever(flag) == TRUE

\* the condition of "while not self.stop_flag"
loop_condition(flag) == ~flag

\* while not self.stop_flag
TailerCheck ==
    /\ tpc = "check"
    /\ tpc' = IF loop_condition(stop_flag) THEN "read" ELSE "done"
    /\ UNCHANGED <<pos, openLen, tasks, bus, unread, attention>>
    /\ UNCHANGED fileVars
    /\ UNCHANGED uiVars

\* line = file.readline(); submit process_line(line.strip()) or sleep; every exception
\* (a failing read, a submit after shutdown) is caught and reported, and ends the loop
TailerRead ==
    /\ tpc = "read"
    /\ \/ /\ tpc' = "done"
          /\ bus' = EmitSystem(bus, TailerErrorMsg)
          /\ UNCHANGED <<pos, tasks>>
       \/ LET line == ReadLine(file, pos)
          IN  IF line = <<>>
              THEN /\ tpc' = "check"
                   /\ UNCHANGED <<pos, tasks, bus>>
              ELSE /\ pos' = pos + Len(line)
                   /\ IF shutdown
                      THEN /\ tpc' = "done"
                           /\ bus' = EmitSystem(bus, TailerErrorMsg)
                           /\ tasks' = tasks
                      ELSE /\ tpc' = "check"
                           /\ tasks' = Append(tasks, LineTask(Strip(line), pos, pos + Len(line)))
                           /\ bus' = bus
    /\ UNCHANGED <<openLen, unread, attention>>
    /\ UNCHANGED fileVars
    /\ UNCHANGED uiVars

---------------------------------------------------------------------------
(* The worker pool: process_line and play_notify tasks                     *)

\* threads of the pool that are busy: monitor_file and every task picked up and not finished
Busy == Cardinality({i \in 1..Len(tasks) : tasks[i].pc \in {"store", "emit", "playing"}})
        + (IF TailerAlive THEN 1 ELSE 0)

\* the pool hands out its work queue in submission order, to a free thread
CanStart(i) ==
    /\ i \in 1..Len(tasks)
    /\ tasks[i].pc = "queued"
    /\ \A j \in 1..(i - 1) : tasks[j].pc # "queued"
    /\ Busy < MaxWorkers

\* the check against the ignore list left out
is_ignored_nobody(username, cfg) == FALSE

\* username and username in self.config["ignored_users"]
is_ignored(username, cfg) == Truthy(username) /\ username \in cfg.ignored_users

\* the test of the channel left out: every whisper, also an outgoing one, notifies
is_any_whisper(parsed) == parsed.category = "Whisper"

\* category == "Whisper" and channel.strip().startswith("@From")
is_incoming_whisper(parsed) ==
    parsed.category = "Whisper" /\ StartsWith(Strip(parsed.channel), <<"@", "F", "r", "o", "m">>)

\* self.config.get("enable_whisper_notifications", True)
notify_enabled(cfg) == cfg.enable_whisper_notifications

ProcessErrorMsg == "Error processing line: "

SetPc(i, p) == [tasks EXCEPT ![i].pc = p]

\* the task goes on past the increment: the value it had read is dead from here
Leave(i, p) == [tasks EXCEPT ![i].pc = p, ![i].tmp = 0]

\* process_line up to the read of self.unread_whispers in "+= 1": parse, drop an
\* unparseable or ignored line, tell an incoming whisper from the rest
ProcessLineBegin(i) ==
    /\ CanStart(i)
    /\ tasks[i].kind = "line"
    /\ LET parsed == tasks[i].parsed
       IN  IF parsed = NoneParsed THEN tasks' = SetPc(i, "dropped")
           ELSE IF is_ignored(parsed.username, config) THEN tasks' = SetPc(i, "dropped")
           ELSE IF is_incoming_whisper(parsed)
                THEN tasks' = [tasks EXCEPT ![i].pc = "store", ![i].tmp = unread]
           ELSE tasks' = SetPc(i, "emit")
    /\ UNCHANGED <<tpc, pos, openLen, bus, unread, attention>>
    /\ UNCHANGED fileVars
    /\ UNCHANGED uiVars

\* the write of "self.unread_whispers += 1", then the notification: submit play_notify
\* (RuntimeError after shutdown, caught by the handler of process_line) and alert
ProcessLineNotify(i) ==
    /\ i \in 1..Len(tasks)
    /\ tasks[i].pc = "store"
    /\ unread' = tasks[i].tmp + 1
    /\ IF ~notify_enabled(config)
       THEN /\ tasks' = Leave(i, "emit")
            /\ UNCHANGED <<bus, attention>>
       ELSE IF shutdown
       THEN /\ tasks' = Leave(i, "failed")
            /\ bus' = EmitSystem(bus, ProcessErrorMsg)
            /\ attention' = attention
       ELSE /\ tasks' = Append(Leave(i, "emit"), SoundTask)
            /\ attention' = IF win = "minimized" THEN TRUE ELSE attention
            /\ bus' = bus
    /\ UNCHANGED <<tpc, pos, openLen>>
    /\ UNCHANGED fileVars
    /\ UNCHANGED uiVars

\* a process_line that plays the sound itself: it gets to its emit only when no playback
\* is pending or in progress
emit_ready_after_playback(i) ==
    /\ tasks[i].pc = "emit"
    /\ \A s \in 1..Len(tasks) : tasks[s].kind = "sound" => tasks[s].pc = "finished"

\* process_line is at its emit: executor.submit(self.play_notify) has returned at once
emit_ready(i) == tasks[i].pc = "emit"

\* self.signals.log_line.emit(content, timestamp, channel, username, category)
ProcessLineEmit(i) ==
    /\ i \in 1..Len(tasks)
    /\ emit_ready(i)
    /\ LET parsed == tasks[i].parsed
       IN  bus' = EmitLog(bus, LogEntry(parsed.content, extract_timestamp(tasks[i].line),
                                        parsed.channel, parsed.username, parsed.category, i))
    /\ tasks' = SetPc(i, "emitted")
    /\ UNCHANGED <<tpc, pos, openLen, unread, attention>>
    /\ UNCHANGED fileVars
    /\ UNCHANGED uiVars

\* play_notify: os.path.isfile(self.notify_path), then the blocking playsound call
SoundBegin(i) ==
    /\ CanStart(i)
    /\ tasks[i].kind = "sound"
    /\ \E exists \in BOOLEAN : tasks' = SetPc(i, IF exists THEN "playing" ELSE "finished")
    /\ UNCHANGED <<tpc, pos, openLen, bus, unread, attention>>
    /\ UNCHANGED fileVars
    /\ UNCHANGED uiVars

\* playsound returns or raises; the exception stays in the task's future
SoundEnd(i) ==
    /\ i \in 1..Len(tasks)
    /\ tasks[i].pc = "playing"
    /\ tasks' = SetPc(i, "finished")
    /\ UNCHANGED <<tpc, pos, openLen, bus, unread, attention>>
    /\ UNCHANGED fileVars
    /\ UNCHANGED uiVars

---------------------------------------------------------------------------
(* The main thread: signal delivery and window events                      *)

\* on_log_line: self.messages.append((content, timestamp, channel, username, category))
on_log_line ==
    /\ bus # <<>>
    /\ Head(bus).sig = "log_line"
    /\ messages' = DequeAppend(messages, Head(bus).entry, maxlen)
    /\ bus' = Tail(bus)
    /\ UNCHANGED <<tpc, pos, openLen, tasks, unread, attention, maxlen, config, win,
                   stop_flag, shutdown>>
    /\ UNCHANGED fileVars

\* on_system_line: self.messages.append((msg, None, None, None, "System"))
on_system_line ==
    /\ bus # <<>>
    /\ Head(bus).sig = "system_line"
    /\ messages' = DequeAppend(messages, Head(bus).entry, maxlen)
    /\ bus' = Tail(bus)
    /\ UNCHANGED <<tpc, pos, openLen, tasks, unread, attention, maxlen, config, win,
                   stop_flag, shutdown>>
    /\ UNCHANGED fileVars

\* changeEvent(WindowStateChange) when the user minimizes the window: nothing but the
\* tray icon changes
Minimize ==
    /\ ~stop_flag
    /\ win = "normal"
    /\ win' = "minimized"
    /\ UNCHANGED <<tpc, pos, openLen, tasks, bus, unread, attention, messages, maxlen,
                   config, stop_flag, shutdown>>
    /\ UNCHANGED fileVars

\* changeEvent(ActivationChange) with isActiveWindow(): the window has regained focus
\* (so it is not minimized); with unread whispers the counter is reset
ActivationChange ==
    /\ ~stop_flag
    /\ win' = "normal"
    /\ attention' = FALSE
    /\ unread' = IF unread > 0 THEN 0 ELSE unread
    /\ UNCHANGED <<tpc, pos, openLen, tasks, bus, messages, maxlen,
                   config, stop_flag, shutdown>>
    /\ UNCHANGED fileVars

\* restore_from_tray: showNormal, activateWindow, self.unread_whispers = 0
restore_from_tray ==
    /\ ~stop_flag
    /\ win' = "normal"
    /\ attention' = FALSE
    /\ unread' = 0
    /\ UNCHANGED <<tpc, pos, openLen, tasks, bus, messages, maxlen,
                   config, stop_flag, shutdown>>
    /\ UNCHANGED fileVars

\* load_config (open_settings after the dialog is accepted, reload_config): self.config
\* is replaced by what config.json holds now; self.messages is left as it is
load_config ==
    /\ ~stop_flag
    /\ \E c \in Configs : c # config /\ config' = c
    /\ UNCHANGED <<tpc, pos, openLen, tasks, bus, unread, attention, messages, maxlen,
                   win, stop_flag, shutdown>>
    /\ UNCHANGED fileVars

\* closeEvent: self.stop_flag = True; self.executor.shutdown(wait=False)
closeEvent ==
    /\ ~stop_flag
    /\ stop_flag' = TRUE
    /\ shutdown' = TRUE
    /\ UNCHANGED <<tpc, pos, openLen, tasks, bus, unread, attention, messages, maxlen,
                   config, win>>
    /\ UNCHANGED fileVars

---------------------------------------------------------------------------
(* The specification                                                       *)

TaskIds == 1..(2 * MaxWrites + BurstLen)

Next ==
    \/ WriterAppend
    \/ WriterFinish
    \/ TailerOpen
    \/ TailerCheck
    \/ TailerRead
    \/ \E i \in TaskIds : ProcessLineBegin(i)
    \/ \E i \in TaskIds : ProcessLineNotify(i)
    \/ \E i \in TaskIds : ProcessLineEmit(i)
    \/ \E i \in TaskIds : SoundBegin(i)
    \/ \E i \in TaskIds : SoundEnd(i)
    \/ on_log_line
    \/ on_system_line
    \/ Minimize
    \/ ActivationChange
    \/ restore_from_tray
    \/ load_config
    \/ closeEvent

Spec == Init /\ [][Next]_vars

\* The system while the window neither regains focus nor is restored from the tray:
\* every step but the two that reset the unread counter
NextNoReset ==
    \/ WriterAppend
    \/ WriterFinish
    \/ TailerOpen
    \/ TailerCheck
    \/ TailerRead
    \/ \E i \in TaskIds : ProcessLineBegin(i)
    \/ \E i \in TaskIds : ProcessLineNotify(i)
    \/ \E i \in TaskIds : ProcessLineEmit(i)
    \/ \E i \in TaskIds : SoundBegin(i)
    \/ \E i \in TaskIds : SoundEnd(i)
    \/ on_log_line
    \/ on_system_line
    \/ Minimize
    \/ load_config
    \/ closeEvent

SpecNoReset == Init /\ [][NextNoReset]_vars

BurstLine == LinePrefix \o MarkFrom \o <<"A", ":", " ", "h", "i", "\n">>

\* the k-th line task of a burst: the k-th copy of BurstLine in the file
BurstTask(k) ==
    LineTask(Strip(BurstLine), Len(OldContent) + (k - 1) * Len(BurstLine),
             Len(OldContent) + k * Len(BurstLine))

RECURSIVE Repeat(_, _)
Repeat(s, n) == IF n = 0 THEN <<>> ELSE s \o Repeat(s, n - 1)

\* The state the system is in after the game has appended BurstLen whispers of A to the
\* log and monitor_file has submitted them all, with notifications disabled, nobody
\* ignored and no task picked up yet
InitBurst ==
    /\ file = OldContent \o Repeat(BurstLine, BurstLen)
    /\ pending = <<>>
    /\ written = BurstLen
    /\ tpc = "check"
    /\ pos = Len(OldContent) + BurstLen * Len(BurstLine)
    /\ openLen = Len(OldContent)
    /\ tasks = [k \in 1..BurstLen |-> BurstTask(k)]
    /\ bus = <<>>
    /\ messages = <<>>
    /\ config = Config(FALSE, {}, MaxCap - ExtraLimit)
    /\ maxlen = MaxCap
    /\ unread = 0
    /\ win = "normal"
    /\ stop_flag = FALSE
    /\ shutdown = FALSE
    /\ attention = FALSE

\* the worker tasks of the burst, the delivery of their events and the window events
NextBurst ==
    \/ \E i \in TaskIds : ProcessLineBegin(i)
    \/ \E i \in TaskIds : ProcessLineNotify(i)
    \/ \E i \in TaskIds : ProcessLineEmit(i)
    \/ on_log_line
    \/ Minimize
    \/ ActivationChange
    \/ restore_from_tray

SpecBurst == InitBurst /\ [][NextBurst]_vars

\* The log is truncated (rotated in place) by its owner: the content is gone, and the
\* offset of the file object that monitor_file holds is what it was
Truncate ==
    /\ tpc \in {"check", "read"}
    /\ file # <<>>
    /\ file' = <<>>
    /\ pending' = <<>>
    /\ written' = written
    /\ UNCHANGED <<tpc, pos, openLen, tasks, bus, unread, attention>>
    /\ UNCHANGED uiVars

\* the start of the application with notifications disabled and nobody ignored
InitPoll == Init /\ config = Config(FALSE, {}, MaxCap - ExtraLimit)

\* the tailer, the line tasks and the deliveries, with a log that may be truncated
NextPoll ==
    \/ WriterAppend
    \/ WriterFinish
    \/ Truncate
    \/ TailerOpen
    \/ TailerCheck
    \/ TailerRead
    \/ \E i \in TaskIds : ProcessLineBegin(i)
    \/ \E i \in TaskIds : ProcessLineNotify(i)
    \/ \E i \in TaskIds : ProcessLineEmit(i)
    \/ on_log_line
    \/ on_system_line
    \/ closeEvent

\* the thread that runs monitor_file is scheduled again and again: each of its steps,
\* once it is the next one, is taken (time.sleep(0.1) returns, readline returns)
SpecPoll ==
    /\ InitPoll
    /\ [][NextPoll]_vars
    /\ WF_vars(TailerOpen)
    /\ WF_vars(TailerCheck)
    /\ WF_vars(TailerRead)

\* the start of the application with notifications enabled and nobody ignored
InitLive == Init /\ config = Config(TRUE, {}, MaxCap - ExtraLimit)

\* the application running, never closed: the game writes and may truncate the log,
\* monitor_file polls, the pool runs the tasks, the main thread receives the signals
NextLive ==
    \/ WriterAppend
    \/ WriterFinish
    \/ Truncate
    \/ TailerOpen
    \/ TailerCheck
    \/ TailerRead
    \/ \E i \in TaskIds : ProcessLineBegin(i)
    \/ \E i \in TaskIds : ProcessLineNotify(i)
    \/ \E i \in TaskIds : ProcessLineEmit(i)
    \/ \E i \in TaskIds : SoundBegin(i)
    \/ \E i \in TaskIds : SoundEnd(i)
    \/ on_log_line
    \/ on_system_line

\* the threads of the pool run the code they are in and the event loop of the main
\* thread delivers the queued signals; nothing is assumed about playsound returning
FairThreads ==
    /\ WF_vars(TailerOpen)
    /\ WF_vars(TailerCheck)
    /\ WF_vars(TailerRead)
    /\ WF_vars(\E i \in TaskIds : ProcessLineBegin(i))
    /\ WF_vars(\E i \in TaskIds : ProcessLineNotify(i))
    /\ WF_vars(\E i \in TaskIds : ProcessLineEmit(i))
    /\ WF_vars(\E i \in TaskIds : SoundBegin(i))
    /\ WF_vars(on_log_line)
    /\ WF_vars(on_system_line)

\* fair threads, playbacks that may last for ever
SpecSound == InitLive /\ [][NextLive]_vars /\ FairThreads

\* fair threads, and every playback ends
SpecLive ==
    InitLive /\ [][NextLive]_vars /\ FairThreads /\ WF_vars(\E i \in TaskIds : SoundEnd(i))

\* characters that follow the start of a generated message body
MaxRest == 3

\* every text over the alphabet A of at most n characters
Texts(A, n) == UNION {[1..k -> A] : k \in 0..n}

\* the starts of the generated bodies: every marker parse_message tests for, doubled
\* and single, two near misses ("@From" and "System" without what follows), and none
ParseStarts ==
    { <<>>, <<"#", "#">>, <<"$", "$">>, <<"#">>, <<"$">>, <<"&">>, <<"%">>,
      MarkFrom, MarkTo, MarkSystem,
      <<"@", "F", "r", "o", "m">>, <<"S", "y", "s", "t", "e", "m">> }

ParseAlphabet == {"o", ":", " "}

\* the raw line of the end-to-end example, as it is written
FixtureRaw == <<"0", "0", ":", "0", "1", ":", "0", "2", " ", "1", "2", "3", " ", "[", "I", "N", "F", "O", " ", "C", "l", "i", "e", "n", "t", " ", "4", "5", "6", "]", " ", "#", " ", "G", "l", "o", "b", "a", "l", ":", " ", "#", "#", "h", "e", "l", "l", "o">>

\* a line in the format of Client.txt (a token before the time, the markers at the start
\* of the body) with the same time, speaker and text
FixtureFormatted == <<"d", " ", "0", "0", ":", "0", "1", ":", "0", "2", " ", "1", "2", "3", " ", "[", "I", "N", "F", "O", " ", "C", "l", "i", "e", "n", "t", " ", "4", "5", "6", "]", " ", "#", "#", "G", "l", "o", "b", "a", "l", ":", " ", "h", "e", "l", "l", "o">>

\* the whisper of the example
FixtureWhisper == LinePrefix \o <<"@", "F", "r", "o", "m", " ", "A", "l", "i", "c", "e", ":", " ", "h", "i", " ", "t", "h", "e", "r", "e">>

\* bodies in which the marker character occurs again: right after the detected marker,
\* and at the end of the name
FixtureTripleMarker == LinePrefix \o <<"#", "#", "#", "B", "o", "b", ":", " ", "x">>

FixtureInnerMarker == LinePrefix \o <<"#", "B", "o", "b", "#", ":", " ", "x">>

\* lines that are not in the format of Client.txt: no "] " before the body, with and
\* without a ':'
FixtureNoSeparator == <<"h", "e", "l", "l", "o", ":", " ", "w", "o", "r", "l", "d">>

FixtureNoSeparatorNoColon == <<"h", "e", "l", "l", "o", " ", "w", "o", "r", "l", "d">>

\* characters of a generated short line
MaxShort == 8

\* short lines of digits and blanks: no, one or several blanks, tokens of up to MaxShort
\* characters; and the same lines ending in ":1", which parse_message accepts
ShortLines ==
    Texts({"1", " "}, MaxShort)
        \cup {l \o <<":", "1">> : l \in Texts({"1", " "}, MaxShort - 2)}

\* the lines the parser is fed: a generated body behind the usual prefix, a fixture, or
\* a short line
ParseLines ==
    {LinePrefix \o st \o r : st \in ParseStarts, r \in Texts(ParseAlphabet, MaxRest)}
        \cup {FixtureRaw, FixtureFormatted, FixtureWhisper,
              FixtureTripleMarker, FixtureInnerMarker,
              FixtureNoSeparator, FixtureNoSeparatorNoColon}
        \cup ShortLines

\* The state the system is in when the game has appended one line to the log after
\* monitor_file opened it, with notifications disabled and nobody ignored
InitParse ==
    /\ \E l \in ParseLines : file = OldContent \o l \o <<"\n">>
    /\ pending = <<>>
    /\ written = MaxWrites
    /\ tpc = "check"
    /\ pos = Len(OldContent)
    /\ openLen = Len(OldContent)
    /\ tasks = <<>>
    /\ bus = <<>>
    /\ messages = <<>>
    /\ config = Config(FALSE, {}, MaxCap - ExtraLimit)
    /\ maxlen = MaxCap
    /\ unread = 0
    /\ win = "normal"
    /\ stop_flag = FALSE
    /\ shutdown = FALSE
    /\ attention = FALSE

\* the line is read, processed and its event (or the notice of a failed read) delivered
NextParse ==
    \/ TailerCheck
    \/ TailerRead
    \/ \E i \in TaskIds : ProcessLineBegin(i)
    \/ \E i \in TaskIds : ProcessLineNotify(i)
    \/ \E i \in TaskIds : ProcessLineEmit(i)
    \/ on_log_line
    \/ on_system_line

SpecParse == InitParse /\ [][NextParse]_vars

---------------------------------------------------------------------------
(* Properties                                                              *)

LineTasks == {i \in 1..Len(tasks) : tasks[i].kind = "line"}

SoundTasks == {i \in 1..Len(tasks) : tasks[i].kind = "sound"}

\* the entries of the history that came from the log (through on_log_line)
LogEntries == {k \in 1..Len(messages) : messages[k].src > 0}

\* the step is the delivery of the oldest queued signal to on_log_line / on_system_line
Delivers == bus # <<>> /\ bus' = Tail(bus)

\* the step is one of task i (every step of a task changes the task's record)
StepOf(i) == i \in 1..Len(tasks) /\ tasks'[i] # tasks[i]

\* C1: of two lines read from the log in that order that both produce an event, the
\* history receives the event of the first no later than that of the second (the
\* entries that came from the log are in the history in the order of their lines).
C1_FileOrder ==
    \A a, b \in LogEntries : a < b => messages[a].src < messages[b].src

\* C2: the history never holds more entries than the capacity the deque was built with,
\* and that capacity never changes, whatever configuration is loaded later.
C2_Bounded == [](Len(messages) <= maxlen) /\ [][maxlen' = maxlen]_vars

\* C2 witness: the history is full while the loaded configuration would give another capacity
C2_Witness == Len(messages) = maxlen /\ InitMaxlen(config) # maxlen /\ maxlen = MaxCap

\* C3: a delivery to a full history removes exactly the oldest entry and puts the new
\* event last, the others keeping their order; below capacity nothing is removed and the
\* new event is last.
C3_Fifo ==
    [][Delivers =>
         IF Len(messages) = maxlen
         THEN messages' = SubSeq(messages, 2, Len(messages)) \o <<Head(bus).entry>>
         ELSE messages' = messages \o <<Head(bus).entry>>]_vars

\* C3 witness: the full history (capacity 2 or more) has lost the event of a line to eviction
C3_Witness ==
    /\ maxlen >= 2
    /\ Len(messages) = maxlen
    /\ bus = <<>>
    /\ \E i \in LineTasks :
          tasks[i].pc = "emitted" /\ \A k \in 1..Len(messages) : messages[k].src # i

\* the line of task i has a speaker that the configuration in force ignores
IgnoredSpeaker(i) ==
    /\ Parsed(tasks[i].line) # NoneParsed
    /\ Parsed(tasks[i].line).username \in config.ignored_users

Counted(i) ==
    /\ tasks[i].pc \in {"emit", "emitted", "failed"}
    /\ is_incoming_whisper(Parsed(tasks[i].line))

\* no task of the pool is queued or running
Quiet == \A i \in 1..Len(tasks) : tasks[i].pc \in {"dropped", "failed", "emitted", "finished"}

\* C5: with no reset in between, once every submitted task has ended the unread counter
\* equals the number of admitted incoming whispers that were processed, whatever the
\* interleaving of the tasks (the counter starts at 0).
C5_NoLostIncrement ==
    Quiet => unread = Cardinality({i \in LineTasks : Counted(i)})

\* C6: with whisper notifications disabled, the step of process_line that counts an
\* admitted incoming whisper raises the unread counter by one, submits no play_notify
\* task and goes on to emit the event.
C6_DisabledCounts ==
    [][\A i \in LineTasks :
          (tasks[i].pc = "store" /\ StepOf(i) /\ ~config.enable_whisper_notifications) =>
              /\ unread' = unread + 1
              /\ Len(tasks') = Len(tasks)
              /\ tasks'[i].pc = "emit"]_vars

\* the line is none, not a whisper, or a whisper with the marker "@To "
NotIncoming(parsed) ==
    \/ parsed = NoneParsed
    \/ parsed.category # "Whisper"
    \/ parsed.channel = MarkTo

\* C7: no step of process_line on a line that is not a whisper, or that is an outgoing
\* whisper ("@To "), changes the unread counter, submits a play_notify task or raises
\* the attention signal, whatever the notifications flag and the window state.
C7_OnlyIncoming ==
    [][\A i \in LineTasks :
          (StepOf(i) /\ NotIncoming(Parsed(tasks[i].line))) =>
              /\ unread' = unread
              /\ attention' = attention
              /\ Len(tasks') = Len(tasks)]_vars

\* C7 witness: an outgoing whisper was processed and emitted with notifications enabled
\* and the window minimized, and nothing was counted, played or signalled
C7_Witness ==
    /\ \E i \in LineTasks :
          tasks[i].pc = "emitted" /\ Parsed(tasks[i].line).channel = MarkTo
    /\ Len(tasks) = 1
    /\ notify_enabled(config) /\ win = "minimized"
    /\ unread = 0 /\ ~attention

\* C8: the unread counter is never negative, it is 0 right after the window regains
\* focus and right after restore_from_tray, and no other step ever lowers it.
C8_CounterResets ==
    [][/\ unread' >= 0
       /\ (ActivationChange \/ restore_from_tray) => unread' = 0
       /\ unread' < unread => (ActivationChange \/ restore_from_tray)]_vars

\* the piece of the file that readline returned for task i, stripped
Piece(i) == Strip(SubSeq(file, tasks[i].off + 1, tasks[i].end))

\* C9: monitor_file starts at the end the file had when it was opened: every line task,
\* and so every history entry that came from the log, is made of characters that were
\* appended after the open.
C9_StartsAtEnd ==
    /\ openLen >= 0 => \A i \in LineTasks : tasks[i].off >= openLen
    /\ \A k \in LogEntries :
          /\ messages[k].src \in LineTasks
          /\ tasks[messages[k].src].off >= openLen
          /\ messages[k].content = Parsed(Piece(messages[k].src)).content

\* C9 witness: the history holds an event of a line appended after the open, while the log
\* held, at the open, the earlier whisper and a line the game wrote before the open
C9_Witness ==
    /\ openLen > Len(OldContent)
    /\ LogEntries # {}

\* C10: what monitor_file hands to process_line is always a complete line: the piece
\* of the file read for a task ends with the newline that terminates the line.
C10_CompleteLines ==
    \A i \in LineTasks : file[tasks[i].end] = "\n"

\* the log holds a complete line again after a truncation while the offset of
\* monitor_file is still beyond the end of the file
Stranded == TailerAlive /\ "\n" \in Chars(file) /\ pos > Len(file)

\* C11: when the log was truncated while monitor_file polls and complete lines are
\* appended again, monitor_file gets to them: it does not stay for ever with its offset
\* beyond the end of a file that holds lines.
C11_TruncationTolerated == Stranded ~> ~Stranded

\* the queued signal of the error notice of monitor_file
TailerErrorSignal == [sig |-> "system_line", entry |-> SystemEntry(TailerErrorMsg)]

\* C12: when monitor_file fails (at the open, or in its loop) it emits exactly one error
\* notice of category System and ends; once ended (or never started, the log not being
\* found) it stays so: it reads nothing more, submits no further process_line task and
\* emits no further notice, whatever is written to the file afterwards.
C12_StoppedTerminal ==
    [][/\ (tpc \in {"open", "read"} /\ tpc' = "done") =>
             /\ bus' = Append(bus, TailerErrorSignal)
             /\ TailerErrorSignal.entry.category = "System"
             /\ tasks' = tasks
       /\ (tpc = "done") =>
             /\ tpc' = "done" /\ pos' = pos
             /\ \A i \in 1..Len(tasks') : i > Len(tasks) => tasks'[i].kind # "line"
             /\ Len(bus') > Len(bus) => bus'[Len(bus')] # TailerErrorSignal
       /\ (tpc = "none") => (tpc' = "none" /\ tasks' = tasks)]_vars

\* C12 witness: monitor_file failed and ended, the application still runs, the game has
\* written complete lines since that were never read, and the history holds the one notice
C12_Witness ==
    /\ tpc = "done" /\ ~stop_flag
    /\ written = MaxWrites /\ pending = <<>> /\ Len(file) > pos
    /\ tasks = <<>> /\ bus = <<>>
    /\ messages = <<SystemEntry(TailerErrorMsg)>>

\* C13: once the stop flag is set, monitor_file eventually leaves its loop (and with it
\* the with-block that holds the file open), wherever it was at that moment; after the
\* flag is set it reads at most one more line, and has ended right after that read.
C13_StopsTailer ==
    /\ [](stop_flag => <>(~TailerAlive))
    /\ [][(stop_flag /\ tpc = "read" /\ pos' # pos) => tpc' = "done"]_vars

\* C13 witness: monitor_file read one more line after the flag was set and has ended
C13_Witness ==
    /\ stop_flag /\ tpc = "done"
    /\ pos > openLen /\ openLen >= 0
    /\ tasks = <<>>
    /\ pos = Len(file)

\* the step is play_notify of task i finding no sound file (it returns at once)
SoundFileMissing(i) == tasks[i].pc = "queued" /\ tasks'[i].pc = "finished"

\* C14: when play_notify fails because the sound file is missing, a notice of category
\* System reporting it is emitted (and so delivered to the history), and the step changes
\* neither monitor_file nor the task of the whisper.
C14_SoundFailureReported ==
    [][\A i \in SoundTasks :
          SoundFileMissing(i) =>
              /\ Len(bus') = Len(bus) + 1
              /\ bus'[Len(bus')].sig = "system_line"
              /\ bus'[Len(bus')].entry.category = "System"
              /\ UNCHANGED <<tpc, pos>>
              /\ \A j \in LineTasks : tasks'[j] = tasks[j]]_vars

\* the categories of the application
Categories == {"Local", "Global", "Party", "Whisper", "Trade", "Guild", "System"}

\* the message body that process_line extracts from the line of task i
BodyOf(i) == extract_message(tasks[i].line)

\* task i has left a trace: an event of its line, or a notice of process_line, is queued
\* or stored
LeftTrace(i) ==
    \/ \E k \in 1..Len(bus) :
          bus[k].entry.src = i \/ bus[k].entry = SystemEntry(ProcessErrorMsg)
    \/ \E k \in 1..Len(messages) :
          messages[k].src = i \/ messages[k] = SystemEntry(ProcessErrorMsg)

\* C15: parse_message returns None for every body without ':' and a result with one of
\* the categories for every body with ':'; a line whose result is None ends dropped,
\* with no entry in the history and no notice.
C15_NoneIffNoColon ==
    \A i \in LineTasks :
        LET r == parse_message(BodyOf(i))
        IN  /\ (":" \notin Chars(BodyOf(i))) => r = NoneParsed
            /\ (":" \in Chars(BodyOf(i))) => (r # NoneParsed /\ r.category \in Categories)
            /\ (r = NoneParsed) => (tasks[i].pc \in {"queued", "dropped"} /\ ~LeftTrace(i))

\* C15 witness: a line with a body of several characters and no ':' was processed and
\* dropped without a trace
C15_Witness ==
    /\ tasks # <<>>
    /\ tasks[1].pc = "dropped"
    /\ Len(BodyOf(1)) >= 2 /\ ":" \notin Chars(BodyOf(1))
    /\ bus = <<>> /\ messages = <<>> /\ tpc = "read"

\* the precedence table of the classifier: start of the body, category, marker
\* (None: no marker)
PrecedenceTable ==
    << [start |-> <<"#", "#">>, category |-> "Global",  marker |-> <<"#">>],
       [start |-> <<"$", "$">>, category |-> "Trade",   marker |-> <<"$">>],
       [start |-> <<"#">>,      category |-> "Global",  marker |-> <<"#">>],
       [start |-> <<"$">>,      category |-> "Trade",   marker |-> <<"$">>],
       [start |-> <<"&">>,      category |-> "Guild",   marker |-> <<"&">>],
       [start |-> <<"%">>,      category |-> "Party",   marker |-> <<"%">>],
       [start |-> MarkFrom,     category |-> "Whisper", marker |-> MarkFrom],
       [start |-> MarkTo,       category |-> "Whisper", marker |-> MarkTo],
       [start |-> MarkSystem,   category |-> "System",  marker |-> None],
       [start |-> <<>>,         category |-> "Local",   marker |-> <<>>] >>

\* the first row of the table whose start the body begins with (the last row matches
\* every body)
TableRow(body) ==
    PrecedenceTable[SetMin({k \in 1..Len(PrecedenceTable) :
                               StartsWith(body, PrecedenceTable[k].start)})]

\* C16: for every body with ':', parse_message returns the category and the marker of
\* the first row of the precedence table that matches the start of the body; a System
\* result has neither marker nor speaker, and a doubled "##" or "$$" gives the single
\* marker.
C16_PrecedenceTable ==
    \A i \in LineTasks :
        LET r == parse_message(BodyOf(i))
        IN  r # NoneParsed =>
              /\ r.category = TableRow(BodyOf(i)).category
              /\ r.channel = TableRow(BodyOf(i)).marker
              /\ (r.category = "System") => r.username = None

\* the body is "@From <name>: <text>" or "@To <name>: <text>"
IsWhisperBody(body) ==
    (StartsWith(body, MarkFrom) \/ StartsWith(body, MarkTo)) /\ ":" \in Chars(body)

\* the marker a whisper body starts with
WhisperMarker(body) == IF StartsWith(body, MarkFrom) THEN MarkFrom ELSE MarkTo

\* index (from 1) of the first ':' of the body
FirstColon(body) == SetMin({k \in 1..Len(body) : body[k] = ":"})

\* C17: for a body "@From <name>: <text>" or "@To <name>: <text>" parse_message gives
\* category Whisper, the marker "@From " or "@To ", as speaker what lies between the
\* marker and the first ':' with surrounding whitespace removed, and as content all that
\* follows the first ':' (later ':' included) with surrounding whitespace removed; the
\* event stored for "@From Alice: hi there" has speaker "Alice" and content "hi there".
C17_WhisperFields ==
    /\ \A i \in LineTasks :
          LET body == BodyOf(i)
              r    == parse_message(body)
          IN  IsWhisperBody(body) =>
                /\ r.category = "Whisper"
                /\ r.channel = WhisperMarker(body)
                /\ r.username =
                      Strip(SubSeq(body, Len(WhisperMarker(body)) + 1, FirstColon(body) - 1))
                /\ r.content = Strip(SubSeq(body, FirstColon(body) + 1, Len(body)))
    /\ \A k \in LogEntries :
          tasks[messages[k].src].line = FixtureWhisper =>
              /\ messages[k].category = "Whisper"
              /\ messages[k].channel = MarkFrom
              /\ messages[k].username = <<"A", "l", "i", "c", "e">>
              /\ messages[k].content = <<"h", "i", " ", "t", "h", "e", "r", "e">>

\* C17 witness: the whisper of the example is in the history
C17_Witness ==
    /\ \E i \in LineTasks : tasks[i].line = FixtureWhisper /\ tasks[i].pc = "emitted"
    /\ Len(messages) = 1
    /\ messages[1].username = <<"A", "l", "i", "c", "e">>

\* the history entries that came from the line l
EntriesOf(l) == {k \in LogEntries : tasks[messages[k].src].line = l}

\* C18 as stated: the raw line "00:01:02 123 [INFO Client 456] # Global: ##hello" yields
\* timestamp "00:01", category Global and content "hello".
C18_FixtureAsStated ==
    \A k \in EntriesOf(FixtureRaw) :
        /\ messages[k].timestamp = <<"0", "0", ":", "0", "1">>
        /\ messages[k].category = "Global"
        /\ messages[k].content = <<"h", "e", "l", "l", "o">>

\* C18: the raw line "00:01:02 123 [INFO Client 456] # Global: ##hello" yields timestamp
\* "123" (the token after the first blank), category Global, marker "#", speaker "Global"
\* and content "##hello"; the line "d 00:01:02 123 [INFO Client 456] ##Global: hello",
\* which has a token before the time and the markers at the start of the body, yields
\* timestamp "00:01", category Global, speaker "Global" and content "hello".
C18_Fixture ==
    /\ \A k \in EntriesOf(FixtureRaw) :
          /\ messages[k].timestamp = <<"1", "2", "3">>
          /\ messages[k].category = "Global"
          /\ messages[k].channel = <<"#">>
          /\ messages[k].username = <<"G", "l", "o", "b", "a", "l">>
          /\ messages[k].content = <<"#", "#", "h", "e", "l", "l", "o">>
    /\ \A k \in EntriesOf(FixtureFormatted) :
          /\ messages[k].timestamp = <<"0", "0", ":", "0", "1">>
          /\ messages[k].category = "Global"
          /\ messages[k].channel = <<"#">>
          /\ messages[k].username = <<"G", "l", "o", "b", "a", "l">>
          /\ messages[k].content = <<"h", "e", "l", "l", "o">>

\* C18 witness: the event of the raw line of the example is in the history
C18_Witness ==
    /\ EntriesOf(FixtureRaw) # {}
    /\ tasks[1].pc = "emitted" /\ bus = <<>>

ProcessErrorSignal == [sig |-> "system_line", entry |-> SystemEntry(ProcessErrorMsg)]

SpeakerPart(body) == SubSeq(body, 1, FirstColon(body) - 1)

\* C21: for the categories other than Whisper and System, the speaker parse_message
\* returns is the part before the first ':' without the detected marker (the start of
\* the matching row of the table, "##" included) and without surrounding whitespace:
\* marker characters that follow the detected marker stay ("###Bob" gives "#Bob",
\* "#Bob#" gives "Bob#"), and for Local the whole trimmed part is the speaker.
C21_ExactMarkerRemoved ==
    \A i \in LineTasks :
        LET body == BodyOf(i)
            r    == parse_message(body)
        IN  (r # NoneParsed /\ r.category \notin {"Whisper", "System"}) =>
              r.username = Strip(SubSeq(SpeakerPart(body), Len(TableRow(body).start) + 1,
                                        Len(SpeakerPart(body))))

\* the line of task i has no "] " before its body
NoSeparator(i) == RFind(tasks[i].line, <<"]", " ">>) = -1

\* C22: a line without the separator "] " is dropped whether or not it holds a ':' : its
\* task ends without an event of the line in the history or on its way to it, and
\* without a notice.
C22_MalformedDropped ==
    \A i \in LineTasks :
        NoSeparator(i) => (tasks[i].pc \in {"queued", "dropped"} /\ ~LeftTrace(i))

\* the blanks of a line (indices from 1)
Blanks(line) == {k \in 1..Len(line) : line[k] = " "}

\* the token after the leading token: what lies between the first blank and the next
\* blank, or the end of the line when there is no other blank
SecondToken(line) ==
    LET first == SetMin(Blanks(line))
        later == {k \in Blanks(line) : k > first}
    IN  SubSeq(line, first + 1, IF later = {} THEN Len(line) ELSE SetMin(later) - 1)

\* the first n characters of a text
FirstChars(s, n) == SubSeq(s, 1, IF Len(s) < n THEN Len(s) ELSE n)

\* C23: extract_timestamp never returns more than 5 characters, and for a line with a
\* blank it returns the first 5 characters of the token after the leading token, also
\* when that token ends the line (fewer than two blanks): nothing of it is lost but what
\* lies beyond its 5th character.
C23_TimestampToken ==
    \A i \in LineTasks :
        LET line == tasks[i].line
        IN  /\ Len(extract_timestamp(line)) <= 5
            /\ (Blanks(line) # {}) =>
                  extract_timestamp(line) = FirstChars(SecondToken(line), 5)

\* the step is the one of process_line on task i that follows the count of an admitted
\* incoming whisper (the task got past the ignore list and the test for "@From")
WhisperStep(i) == i \in LineTasks /\ tasks[i].pc = "store" /\ StepOf(i)

\* C24: QApplication.alert is called exactly when an admitted incoming whisper is
\* processed while the window is minimized: every such step calls it, and no other step
\* does.
C24_AttentionWhenMinimized ==
    [][/\ \A i \in LineTasks : (WhisperStep(i) /\ win = "minimized") => attention'
       /\ (attention' /\ ~attention) => (win = "minimized" /\ \E i \in LineTasks : WhisperStep(i))]_vars

\* a playsound call is in progress
Playing == \E s \in SoundTasks : tasks[s].pc = "playing"

\* C25: a playback in progress holds up neither monitor_file nor the event of the
\* whisper: whether or not playsound ever returns, monitor_file is always again out of
\* its read (at the next test of its loop, or ended), and always again no process_line
\* task that has submitted its sound, or had none to submit, is still waiting to emit
\* its event.
C25_SoundNeverBlocks ==
    /\ []<>(tpc # "read")
    /\ []<>(\A i \in LineTasks : tasks[i].pc # "emit")

\* C25 witness: while the sound of a whisper is still playing, the event of that whisper
\* is in the history and monitor_file, still in its loop, has submitted a later line
C25_Witness ==
    \E i, j \in LineTasks : \E s \in SoundTasks :
        /\ i < s /\ s < j
        /\ tasks[s].pc = "playing"
        /\ is_incoming_whisper(Parsed(tasks[i].line))
        /\ \E k \in LogEntries : messages[k].src = i
        /\ TailerAlive

\* the complete lines of the log as extents <<a, b>>: characters a+1..b, the last of
\* them the newline
LineExtents ==
    LET starts == {0} \cup {a \in 1..Len(file) : file[a] = "\n"}
        ends   == {b \in 1..Len(file) : file[b] = "\n"}
    IN  {e \in starts \X ends :
            e[1] < e[2] /\ \A k \in (e[1] + 1)..(e[2] - 1) : file[k] # "\n"}

\* the offset from which the content of the log was appended while monitor_file had the
\* file open: the size at the open, or 0 once the log has been truncated
PolledFrom == IF StartsWith(file, OldContent) THEN openLen ELSE 0

\* the line classifies to an event and its speaker is not ignored
Eligible(e) ==
    LET parsed == Parsed(Strip(SubSeq(file, e[1] + 1, e[2])))
    IN  parsed # NoneParsed /\ ~is_ignored(parsed.username, config)

\* the event of task i has been appended to the history
Entered(i) == tasks[i].pc = "emitted" /\ \A k \in 1..Len(bus) : bus[k].entry.src # i

\* the tasks whose event was appended to the history and that were given characters of
\* the line
EntriesFrom(e) ==
    {i \in LineTasks : e[1] <= tasks[i].off /\ tasks[i].end <= e[2] /\ Entered(i)}

\* every eligible complete line appended while monitor_file polls has given the history
\* exactly one entry
AllEntered ==
    \A e \in LineExtents :
        (e[1] >= PolledFrom /\ Eligible(e)) => Cardinality(EntriesFrom(e)) = 1

\* C26: with no stop requested, fair threads and playbacks that end, from some time on
\* every eligible complete line that was appended to the log while monitor_file polls
\* has exactly one entry appended to the history for as long as monitor_file polls.
C26_EveryLineOnce == <>[](TailerAlive => AllEntered)

\* C27: an explicit stop causes no error event: monitor_file emits its error notice only
\* when the open or a read has failed (nothing was read: its offset is where it was), and
\* the processing of a line never fails because the pool has been shut down.
C27_StopCausesNoError ==
    [][/\ (Len(bus') > Len(bus) /\ bus'[Len(bus')] = TailerErrorSignal) => pos' = pos
       /\ \A i \in LineTasks :
             (tasks[i].pc # "failed" /\ tasks'[i].pc = "failed") => ~shutdown]_vars

\* C28: counting and emitting go together: a process_line task that went past the
\* increment of the unread counter for its whisper is about to emit the event of that
\* whisper or has emitted it; it has not ended without the event.
C28_CountedIsEmitted ==
    \A i \in LineTasks : Counted(i) => tasks[i].pc \in {"emit", "emitted"}

====
